---------------------------- MODULE Spec2Model ----------------------------
(***************************************************************************)
(* Model of app.py: the amortization-schedule generator, the future-value  *)
(* of-annuity calculator and the comparison script that combines them.     *)
(*                                                                         *)
(* Python floats are IEEE-754 binary floating point with round-to-nearest- *)
(* even.  The model keeps that arithmetic (every +, -, *, / is the exact   *)
(* result rounded once to the nearest representable value, ties to even)   *)
(* and narrows the significand from 53 to Prec bits so that every          *)
(* intermediate fits TLC's 32-bit integers.  The exponent is unbounded:    *)
(* none of the modelled inputs comes near overflow or underflow.           *)
(* A float is a record [m, e] standing for m * 2^e, with m = 0 /\ e = 0 or *)
(* 2^(Prec-1) <= |m| < 2^Prec, so equal values are equal records.          *)
(***************************************************************************)
EXTENDS Integers, Sequences, FiniteSets, TLC

\* Significand width of the modelled floats (binary64 has 53).
Prec == 13

---------------------------------------------------------------------------
\* Floating-point arithmetic (Python float: +, -, *, /, **, comparisons)

AbsI(x) == IF x < 0 THEN -x ELSE x

SgnI(x) == IF x < 0 THEN -1 ELSE 1

\* Number of bits of x, 1 <= x < 2^31.
BitLen(x) == CHOOSE k \in 1..31 : 2^(k - 1) <= x /\ (k = 31 \/ x < 2^k)

Zero == [m |-> 0, e |-> 0]

\* m * 2^e rounded to Prec significant bits, nearest, ties to even.
Round(m, e) ==
    IF m = 0 THEN Zero
    ELSE LET a == AbsI(m)
             s == SgnI(m)
             L == BitLen(a)
         IN  IF L <= Prec
             THEN [m |-> s * a * 2^(Prec - L), e |-> e - (Prec - L)]
             ELSE LET k    == L - Prec
                      q    == a \div 2^k
                      rem  == a % 2^k
                      half == 2^(k - 1)
                      up   == rem > half \/ (rem = half /\ q % 2 = 1)
                      q2   == IF up THEN q + 1 ELSE q
                  IN  IF q2 = 2^Prec
                      THEN [m |-> s * 2^(Prec - 1), e |-> e + k + 1]
                      ELSE [m |-> s * q2, e |-> e + k]

\* int -> float conversion (exact for |i| < 2^Prec, as for |i| < 2^53).
FromInt(i) == Round(i, 0)

NegF(a) == [m |-> -a.m, e |-> a.e]

AbsF(a) == [m |-> AbsI(a.m), e |-> a.e]

\* a + b with |a| >= |b| in exponent: exact sum, one rounding.  When the
\* exponents are more than Prec + 1 apart b is below a quarter ulp of a.
AddOrdered(a, b) ==
    LET d == a.e - b.e
    IN  IF d >= Prec + 2 THEN a
        ELSE Round(a.m * 2^d + b.m, b.e)

AddF(a, b) ==
    IF a.m = 0 THEN b
    ELSE IF b.m = 0 THEN a
    ELSE IF a.e >= b.e THEN AddOrdered(a, b) ELSE AddOrdered(b, a)

SubF(a, b) == AddF(a, NegF(b))

MulF(a, b) == Round(a.m * b.m, a.e + b.e)

\* a / b for b # 0: Prec + 2 quotient bits and a sticky bit, one rounding.
DivF(a, b) ==
    IF a.m = 0 THEN Zero
    ELSE LET N   == AbsI(a.m) * 2^(Prec + 2)
             d   == AbsI(b.m)
             q   == N \div d
             st  == IF N % d = 0 THEN 0 ELSE 1
             s   == SgnI(a.m) * SgnI(b.m)
         IN  Round(s * (2 * q + st), a.e - b.e - (Prec + 2) - 1)

LtF(a, b) == SubF(a, b).m < 0

LeF(a, b) == SubF(a, b).m <= 0

GtF(a, b) == SubF(a, b).m > 0

MaxF(a, b) == IF GtF(b, a) THEN b ELSE a

One == FromInt(1)

\* x ** k for an int k >= 0, by squaring and multiplying.
RECURSIVE PowNat(_, _)
PowNat(x, k) ==
    IF k = 0 THEN One
    ELSE IF k = 1 THEN x
    ELSE LET h == PowNat(x, k \div 2)
         IN  IF h.m = 0 THEN Zero
             ELSE IF k % 2 = 0 THEN MulF(h, h)
             ELSE MulF(MulF(h, h), x)

\* x ** k for an int k (float ** int); a zero base with k < 0 is not drawn.
PowInt(x, k) == IF k >= 0 THEN PowNat(x, k) ELSE DivF(One, PowNat(x, -k))


\* floor(sqrt(N)) for 0 <= N < 2^(2 * Prec + 2): first the block of 128
\* candidates the root lies in, then the root within the block.
ISqrt(N) ==
    LET h == CHOOSE i \in 0..(2^(Prec + 1) \div 128 - 1) :
                 (i * 128) * (i * 128) <= N /\ N < ((i + 1) * 128) * ((i + 1) * 128)
    IN  CHOOSE q \in (h * 128)..(h * 128 + 127) : q * q <= N /\ N < (q + 1) * (q + 1)

\* Correctly rounded square root of a > 0.
SqrtF(a) ==
    LET t  == IF (a.e - (Prec + 1)) % 2 = 0 THEN Prec + 1 ELSE Prec + 2
        N  == a.m * 2^t
        q  == ISqrt(N)
        st == IF q * q = N THEN 0 ELSE 1
    IN  Round(2 * q + st, ((a.e - t) \div 2) - 1)

IsIntF(y) == y.e >= 0 \/ y.m % 2^(-y.e) = 0

\* floor(y) as an int, for the values the model draws.
FloorF(y) == IF y.e >= 0 THEN y.m * 2^y.e ELSE y.m \div 2^(-y.e)

\* x ** f for 0 < f < 1 given as F / 2^nb: the product of the i-th iterated
\* square roots of x over the set bits i of f, times acc.
RECURSIVE PowFrac(_, _, _, _, _)
PowFrac(acc, s, F, nb, i) ==
    IF i > nb \/ acc.m = 0 \/ s.m = 0 THEN acc
    ELSE PowFrac(IF (F \div 2^(nb - i)) % 2 = 1 THEN MulF(acc, SqrtF(s)) ELSE acc,
                 SqrtF(s), F, nb, i + 1)

\* x ** y for floats (C pow): integral y as PowInt; otherwise, for x > 0,
\* x ** floor(y) times x ** frac(y).  libm's pow is correctly rounded to
\* within an ulp; this one differs from it in the last places only.
PowF(x, y) ==
    IF IsIntF(y) THEN PowInt(x, FloorF(y))
    ELSE LET k  == FloorF(y)
             nb == -y.e
             F  == y.m - k * 2^nb
         IN  PowFrac(PowInt(x, k), x, F, nb, 1)

---------------------------------------------------------------------------
\* Bounds of the model

\* Longest tenure drawn, in years (the slider allows up to 40).
MaxYears == 2

\* Two floats are Close when they differ by at most 2^TolBits units in the
\* last place of the larger one.
TolBits == 6

---------------------------------------------------------------------------
\* State

VARIABLES
    P, r, years, extra, annual_return, button,   \* widget values (lines 67-73, 174)
    pc, error,                                   \* position in the script, exception raised
    call, extra_annual, r_monthly, n, EMI,       \* frame of the running amortization_schedule call
    month, balance, schedule,
    cum_interest, cum_principal,                 \* running sums of the Interest and Principal columns
    extra_base,                                  \* extra_annual passed to the first call
    df_base, interest_base, months_base,         \* line 78
    df_extra, interest_extra, months_extra,      \* line 79
    interest_saved, years_saved, years_invest,   \* lines 84-92
    fv_invest, total_invested, returns_earned,
    net_benefit, category,                       \* lines 117-123
    years_short, fv_invest_short,                \* lines 178-194
    total_invested_short, returns_earned_short,
    net_benefit_short, category_short

inputs == <<P, r, years, extra, annual_return, button>>

frame == <<call, extra_annual, r_monthly, n, EMI, month, balance, schedule,
           cum_interest, cum_principal>>

results == <<extra_base, df_base, interest_base, months_base,
             df_extra, interest_extra, months_extra>>

metrics == <<interest_saved, years_saved, years_invest, fv_invest,
             total_invested, returns_earned, net_benefit, category>>

short == <<years_short, fv_invest_short, total_invested_short,
           returns_earned_short, net_benefit_short, category_short>>

vars == <<inputs, pc, error, frame, results, metrics, short>>

\* A percentage given in tenths (8.0, 12.5, ...): the float nearest to t/10.
Tenths(t) == DivF(FromInt(t), FromInt(10))

---------------------------------------------------------------------------
\* amortization_schedule (lines 10-41)

\* Line 11: r = r_annual / 12 / 100.
MonthlyRate(r_annual) == DivF(DivF(r_annual, FromInt(12)), FromInt(100))

\* Line 12: n = int(years * 12), years an int.
Payments(yrs) == yrs * 12

\* Variant of EMI_formula: a zero denominator yields an EMI of 0 instead of raising.
EMI_formula_noRaise(principal, rm, k) ==
    LET x   == PowInt(AddF(One, rm), k)
        den == SubF(x, One)
    IN  IF den.m = 0
        THEN [raised |-> FALSE, v |-> Zero]
        ELSE [raised |-> FALSE, v |-> DivF(MulF(MulF(FromInt(principal), rm), x), den)]

\* Line 13: EMI = P * r * (1 + r)**n / ((1 + r)**n - 1).  Float division by
\* zero raises ZeroDivisionError.
EMI_formula(principal, rm, k) ==
    LET x   == PowInt(AddF(One, rm), k)
        den == SubF(x, One)
    IN  IF den.m = 0
        THEN [raised |-> TRUE, v |-> Zero]
        ELSE [raised |-> FALSE, v |-> DivF(MulF(MulF(FromInt(principal), rm), x), den)]

\* Variant of ExtraDue: the month test is dropped.
ExtraDue_monthly(e, mth) == e > 0

\* Line 23: the extra payment falls due once per year, at year end.
ExtraDue(e, mth) == e > 0 /\ mth % 12 = 0

\* Variant of ApplyExtra: the extra payment is subtracted.
ApplyExtra_sub(principal, e) == SubF(principal, FromInt(e))

\* Line 24: principal += extra_annual.
ApplyExtra(principal, e) == AddF(principal, FromInt(e))

\* Lines 28-30: early payoff, principal += balance; balance = 0.
Clamp(principal, bal) ==
    IF LtF(bal, Zero)
    THEN [Principal |-> AddF(principal, bal), Balance |-> Zero]
    ELSE [Principal |-> principal, Balance |-> bal]

\* Lines 19-32: the row of one month, from the balance before it.
MonthRow(bal, mth, emi, rm, e) ==
    LET interest   == MulF(bal, rm)
        principal0 == SubF(emi, interest)
        principal1 == IF ExtraDue(e, mth) THEN ApplyExtra(principal0, e) ELSE principal0
        c          == Clamp(principal1, SubF(bal, principal1))
    IN  [Month |-> mth, Principal |-> c.Principal, Interest |-> interest,
         Balance |-> c.Balance]

\* Line 34: if balance <= 0: break.
LoopBreak(bal) == LeF(bal, Zero)

\* Lines 38 and 132-135: a column's sum, taken left to right.  The model
\* carries the running sums of the Interest and Principal columns along
\* with the rows (cum_interest, cum_principal); this is one step of them.
SumStep(acc, x) == AddF(acc, x)

\* Lines 10-16: bind the arguments, compute r, n and EMI, set up the loop.
Enter(c, e) ==
    LET emi == EMI_formula(P, r_monthly', n')
    IN  /\ call' = c
        /\ extra_annual' = e
        /\ r_monthly' = MonthlyRate(r)
        /\ n' = Payments(years)
        /\ EMI' = emi.v
        /\ month' = 1
        /\ balance' = FromInt(P)
        /\ schedule' = <<>>
        /\ cum_interest' = Zero
        /\ cum_principal' = Zero
        /\ IF emi.raised
           THEN pc' = "raised" /\ error' = "ZeroDivisionError"
           ELSE pc' = (IF n' >= 1 THEN "loop" ELSE "ret") /\ error' = error

\* Line 78: amortization_schedule(P, r, years, extra_annual=0).
CallBase ==
    /\ pc = "line78"
    /\ Enter("base", 0)
    /\ extra_base' = 0
    /\ UNCHANGED <<inputs, df_base, interest_base, months_base,
                   df_extra, interest_extra, months_extra, metrics, short>>

\* Line 79: amortization_schedule(P, r, years, extra_annual=extra).
CallExtra ==
    /\ pc = "line79"
    /\ Enter("extra", extra)
    /\ UNCHANGED <<inputs, results, metrics, short>>

\* Lines 18-35: one iteration of the for loop.
LoopStep ==
    /\ pc = "loop"
    /\ LET row == MonthRow(balance, month, EMI, r_monthly, extra_annual)
       IN  /\ balance' = row.Balance
           /\ schedule' = Append(schedule, row)
           /\ cum_interest' = SumStep(cum_interest, row.Interest)
           /\ cum_principal' = SumStep(cum_principal, row.Principal)
           /\ IF LoopBreak(row.Balance) \/ month = n
              THEN pc' = "ret" /\ month' = month
              ELSE pc' = "loop" /\ month' = month + 1
    /\ UNCHANGED <<inputs, error, call, extra_annual, r_monthly, n, EMI,
                   results, metrics, short>>

\* Lines 37-41: the data frame, its totals and the return.  iloc[-1] of an
\* empty frame raises IndexError.
Return ==
    /\ pc = "ret"
    /\ IF schedule = <<>>
       THEN /\ pc' = "raised"
            /\ error' = "IndexError"
            /\ UNCHANGED results
       ELSE /\ error' = error
            /\ IF call = "base"
               THEN /\ pc' = "line79"
                    /\ df_base' = schedule
                    /\ interest_base' = cum_interest
                    /\ months_base' = schedule[Len(schedule)].Month
                    /\ UNCHANGED <<extra_base, df_extra, interest_extra, months_extra>>
               ELSE /\ pc' = "line84"
                    /\ df_extra' = schedule
                    /\ interest_extra' = cum_interest
                    /\ months_extra' = schedule[Len(schedule)].Month
                    /\ UNCHANGED <<extra_base, df_base, interest_base, months_base>>
    /\ UNCHANGED <<inputs, frame, metrics, short>>

---------------------------------------------------------------------------
\* future_value_annuity (lines 46-56)

\* Line 52: the literal 1e-12.
Eps == DivF(One, MulF(FromInt(1000000), FromInt(1000000)))

\* Variant of AnnuityFormula: annuity due (contributions at the start of each period).
AnnuityFormula_due(c, rt, k) ==
    MulF(DivF(MulF(c, SubF(PowF(AddF(One, rt), k), One)), rt), AddF(One, rt))

\* Line 55: fv = annual_contrib * ((1 + r)**n - 1) / r.
AnnuityFormula(c, rt, k) == DivF(MulF(c, SubF(PowF(AddF(One, rt), k), One)), rt)

\* annual_contrib an int, annual_return_pct and years floats.
future_value_annuity(annual_contrib, annual_return_pct, yrs) ==
    LET rt == DivF(annual_return_pct, FromInt(100))
        k  == yrs
    IN  IF LeF(k, Zero) \/ annual_contrib = 0 THEN Zero
        ELSE IF LtF(AbsF(rt), Eps) THEN MulF(FromInt(annual_contrib), k)
        ELSE AnnuityFormula(FromInt(annual_contrib), rt, k)

---------------------------------------------------------------------------
\* The script (lines 78-218)

\* Variant of Classify: a zero net benefit is reported as a win for investing.
Classify_ge(net) ==
    IF ~LtF(net, Zero) THEN "success"
    ELSE IF LtF(net, Zero) THEN "error"
    ELSE "info"

\* Lines 118-123 and 189-194: st.success / st.error / st.info.
Classify(net) ==
    IF GtF(net, Zero) THEN "success"
    ELSE IF LtF(net, Zero) THEN "error"
    ELSE "info"

\* Lines 84-92: the comparison metrics at the original loan horizon.
Compare ==
    /\ pc = "line84"
    /\ interest_saved' = MaxF(Zero, SubF(interest_base, interest_extra))
    /\ years_saved' = DivF(FromInt(months_base - months_extra), FromInt(12))
    /\ years_invest' = DivF(FromInt(months_base), FromInt(12))
    /\ fv_invest' = future_value_annuity(extra, annual_return, years_invest')
    /\ total_invested' = MulF(FromInt(extra), years_invest')
    /\ returns_earned' = SubF(fv_invest', total_invested')
    /\ pc' = "line117"
    /\ UNCHANGED <<inputs, error, frame, results, net_benefit, category, short>>

\* Lines 117-123: net benefit and its message.
NetBenefit ==
    /\ pc = "line117"
    /\ net_benefit' = SubF(returns_earned, interest_saved)
    /\ category' = Classify(net_benefit')
    /\ pc' = "line174"
    /\ UNCHANGED <<inputs, error, frame, results, interest_saved, years_saved,
                   years_invest, fv_invest, total_invested, returns_earned, short>>

\* Variant of ShortenedComparison: the horizon is taken from the baseline run.
ShortenedComparison_base ==
    /\ years_short' = DivF(FromInt(months_base), FromInt(12))
    /\ fv_invest_short' = future_value_annuity(extra, annual_return, years_short')
    /\ total_invested_short' = MulF(FromInt(extra), years_short')
    /\ returns_earned_short' = SubF(fv_invest_short', total_invested_short')
    /\ net_benefit_short' = SubF(returns_earned_short', interest_saved)
    /\ category_short' = Classify(net_benefit_short')

\* Lines 178-194: the comparison at the shortened horizon.
ShortenedComparison ==
    /\ years_short' = DivF(FromInt(months_extra), FromInt(12))
    /\ fv_invest_short' = future_value_annuity(extra, annual_return, years_short')
    /\ total_invested_short' = MulF(FromInt(extra), years_short')
    /\ returns_earned_short' = SubF(fv_invest_short', total_invested_short')
    /\ net_benefit_short' = SubF(returns_earned_short', interest_saved)
    /\ category_short' = Classify(net_benefit_short')

\* Lines 174-218: the optional block runs only when the button was clicked.
Button ==
    /\ pc = "line174"
    /\ IF button THEN ShortenedComparison ELSE UNCHANGED short
    /\ pc' = "done"
    /\ UNCHANGED <<inputs, error, frame, results, metrics>>

---------------------------------------------------------------------------
\* Specifications

\* Amounts of the script run are in units of Rs 100: the widgets allow a
\* principal of 1000 .. 1000000 units and an extra payment of 0 .. 50000.
PrincipalValues == {1000, 1500}

RateValues == {Tenths(120), Tenths(200)}

ExtraValues == {0, 100, 500, 3000}

ReturnValues == {Zero, Tenths(70), Tenths(300)}

BlankCall ==
    /\ error = "none"
    /\ call = "none" /\ extra_annual = 0 /\ r_monthly = Zero /\ n = 0 /\ EMI = Zero
    /\ month = 0 /\ balance = Zero /\ schedule = <<>>
    /\ cum_interest = Zero /\ cum_principal = Zero
    /\ extra_base = 0
    /\ df_base = <<>> /\ interest_base = Zero /\ months_base = 0
    /\ df_extra = <<>> /\ interest_extra = Zero /\ months_extra = 0

BlankMetrics ==
    /\ interest_saved = Zero /\ years_saved = Zero
    /\ fv_invest = Zero /\ total_invested = Zero /\ returns_earned = Zero
    /\ net_benefit = Zero /\ category = "none"
    /\ years_short = Zero /\ fv_invest_short = Zero /\ total_invested_short = Zero
    /\ returns_earned_short = Zero /\ net_benefit_short = Zero
    /\ category_short = "none"

Blank == BlankCall /\ BlankMetrics /\ years_invest = Zero

\* One run of the script on widget values within the widgets' ranges.
Init ==
    /\ P \in PrincipalValues
    /\ r \in RateValues
    /\ years \in 1..MaxYears
    /\ extra \in ExtraValues
    /\ annual_return \in ReturnValues
    /\ button \in BOOLEAN
    /\ pc = "line78"
    /\ Blank

Next == CallBase \/ CallExtra \/ LoopStep \/ Return \/ Compare \/ NetBenefit \/ Button

Spec == Init /\ [][Next]_vars

\* amortization_schedule as a function: any arguments, invalid ones included,
\* called twice on the same loan with extra payments e1 <= e2.
PrincipalArgs == {-100, 0, 1200}

RateArgs == {Tenths(-80), Zero, Tenths(5), Tenths(10), Tenths(120)}

ExtraArgs == {0, 50, 500, 3000}

CallFirst ==
    /\ pc = "line78"
    /\ \E e \in ExtraArgs :
          /\ e <= extra
          /\ Enter("base", e)
          /\ extra_base' = e
    /\ UNCHANGED <<inputs, df_base, interest_base, months_base,
                   df_extra, interest_extra, months_extra, metrics, short>>

InitFn ==
    /\ P \in PrincipalArgs
    /\ r \in RateArgs
    /\ years \in -1..MaxYears
    /\ extra \in ExtraArgs
    /\ annual_return = Zero
    /\ button = FALSE
    /\ pc = "line78"
    /\ Blank

NextFn == CallFirst \/ CallExtra \/ LoopStep \/ Return

SpecFn == InitFn /\ [][NextFn]_vars

\* future_value_annuity as a function: any contribution, rate and horizon.
ContribArgs == {0, 1, 50, 500, 3000}

ReturnArgs == {Tenths(-500), Zero, Tenths(50), Tenths(70), Tenths(125), Tenths(300)}

HorizonArgs == {FromInt(y) : y \in -1..(MaxYears + 2)} \cup {DivF(FromInt(18), FromInt(12))}

FVCall ==
    /\ pc = "fv_call"
    /\ fv_invest' = future_value_annuity(extra, annual_return, years_invest)
    /\ pc' = "fv_done"
    /\ UNCHANGED <<inputs, error, frame, results, interest_saved, years_saved,
                   years_invest, total_invested, returns_earned, net_benefit,
                   category, short>>

InitFV ==
    /\ P = 0 /\ r = Zero /\ years = 0 /\ button = FALSE
    /\ extra \in ContribArgs
    /\ annual_return \in ReturnArgs
    /\ years_invest \in HorizonArgs
    /\ pc = "fv_call"
    /\ BlankCall /\ BlankMetrics

NextFV == FVCall

SpecFV == InitFV /\ [][NextFV]_vars

---------------------------------------------------------------------------
\* Properties

\* |a - b| is at most 2^k units in the last place of scale.
Within(a, b, scale, k) ==
    LeF(AbsF(SubF(a, b)), [m |-> 2^(Prec - 1), e |-> scale.e + k - (Prec - 1)])

\* A valid loan: P > 0, rate > 0, years a positive integer (extra >= 0 in
\* every drawn input).
Valid == P > 0 /\ r.m > 0 /\ years >= 1

Invalid == P <= 0 \/ r.m < 0 \/ years <= 0

\* The balance a row started from.
BalanceBefore(i) == IF i = 1 THEN FromInt(P) ELSE schedule[i - 1].Balance


\* C1: for every valid loan the Balance column never rises from row to row
\* (nor above P), and the last row of the finished schedule has Balance
\* exactly 0.
C1_BalanceFallsToZero ==
    Valid =>
        /\ \A i \in 1..Len(schedule) : LeF(schedule[i].Balance, BalanceBefore(i))
        /\ pc = "ret" => schedule[Len(schedule)].Balance = Zero

\* C2: for every valid loan the finished schedule has at most years*12 rows,
\* exactly years*12 when extra_annual = 0, and no row follows a row whose
\* balance is 0.
C2_MonthsBounded ==
    (Valid /\ pc = "ret") =>
        /\ schedule[Len(schedule)].Month <= years * 12
        /\ extra_annual = 0 => schedule[Len(schedule)].Month = years * 12
        /\ \A i \in 1..(Len(schedule) - 1) : schedule[i].Balance # Zero

\* C3: with P, rate and years fixed and extra payments e1 <= e2, the run with
\* e2 takes no more months and pays no more interest than the run with e1.
C3_ExtraMonotone ==
    (Valid /\ pc = "line84") =>
        /\ extra_base <= extra
        /\ months_extra <= months_base
        /\ LeF(interest_extra, interest_base)

C3_Witness ==
    /\ Valid /\ pc = "line84"
    /\ 0 < extra_base /\ extra_base < extra
    /\ months_extra < months_base
    /\ LtF(interest_extra, interest_base)

\* C4: for every valid loan the Principal column of the finished schedule sums
\* to P within tolerance; and after every row P minus the principal paid so
\* far is that row's Balance, within tolerance (holding in every state, the
\* second conjunct speaks of every row as it is emitted).
C4_PrincipalSumsToP ==
    Valid /\ call # "none" =>
        /\ pc = "ret" => Within(cum_principal, FromInt(P), FromInt(P), TolBits)
        /\ Within(SubF(FromInt(P), cum_principal), balance, FromInt(P), TolBits)

\* C5: a call with a non-positive principal, a negative rate or a non-positive
\* tenure ends in InvalidLoanTermsError and produces no schedule, not even a
\* partial one.
C5_InvalidTermsRejected ==
    Invalid =>
        /\ schedule = <<>> /\ df_base = <<>> /\ df_extra = <<>>
        /\ pc # "line78" => (pc = "raised" /\ error = "InvalidLoanTermsError")

\* C6: at annual rate 0, with valid P and years, the call either amortizes
\* linearly (EMI = P/n, every row's interest 0) or raises before any row is
\* emitted; no schedule is built from the undefined EMI of the formula.
C6_ZeroRate ==
    (r = Zero /\ P > 0 /\ years >= 1 /\ pc # "line78") =>
        \/ /\ pc = "raised" /\ error # "none"
           /\ schedule = <<>> /\ df_base = <<>> /\ df_extra = <<>>
        \/ /\ EMI = DivF(FromInt(P), FromInt(years * 12))
           /\ \A i \in 1..Len(schedule) : schedule[i].Interest = Zero

C6_Witness ==
    /\ r = Zero /\ P > 0 /\ years >= 1
    /\ pc = "raised" /\ error = "ZeroDivisionError" /\ schedule = <<>>

\* The contributions of an ordinary annuity, each compounded annually from the
\* end of its period: c * (1+rt)^0 + ... + c * (1+rt)^(k-1).
RECURSIVE AnnuitySum(_, _, _)
AnnuitySum(c, rt, k) ==
    IF k = 0 THEN Zero
    ELSE AddF(AnnuitySum(c, rt, k - 1), MulF(c, PowNat(AddF(One, rt), k - 1)))

\* C7: future_value_annuity is 0 when years <= 0 or the contribution is 0,
\* is exactly contribution * years at rate 0 with years > 0, and for a non-zero
\* rate and whole years >= 1 is the sum of the compounded contributions (to
\* within rounding).
C7_FutureValue ==
    pc = "fv_done" =>
        /\ (LeF(years_invest, Zero) \/ extra = 0) => fv_invest = Zero
        /\ (annual_return = Zero /\ GtF(years_invest, Zero))
              => fv_invest = MulF(FromInt(extra), years_invest)
        /\ (annual_return # Zero /\ IsIntF(years_invest) /\ GtF(years_invest, Zero))
              => LET s == AnnuitySum(FromInt(extra),
                                     DivF(annual_return, FromInt(100)),
                                     FloorF(years_invest))
                 IN  Within(fv_invest, s, s, TolBits)

C7_Witness ==
    /\ pc = "fv_done" /\ extra > 0 /\ annual_return.m > 0
    /\ years_invest = FromInt(3)
    /\ GtF(fv_invest, MulF(FromInt(extra), years_invest))

\* C8: the shortened-horizon comparison exists only in a run whose button is
\* set; it uses horizon months_extra/12 and the interest_saved of the default
\* comparison; and the default metrics do not depend on the button: they are
\* the same functions of the two schedules' totals, untouched by the optional
\* block.
C8_ShortenedGated ==
    /\ [](~(button /\ pc = "done") =>
            /\ years_short = Zero /\ fv_invest_short = Zero
            /\ total_invested_short = Zero /\ returns_earned_short = Zero
            /\ net_benefit_short = Zero /\ category_short = "none")
    /\ []((button /\ pc = "done") =>
            /\ years_short = DivF(FromInt(months_extra), FromInt(12))
            /\ fv_invest_short = future_value_annuity(extra, annual_return, years_short)
            /\ total_invested_short = MulF(FromInt(extra), years_short)
            /\ returns_earned_short = SubF(fv_invest_short, total_invested_short)
            /\ net_benefit_short = SubF(returns_earned_short, interest_saved)
            /\ category_short \in {"success", "error", "info"})
    /\ [](pc \in {"line174", "done"} =>
            /\ interest_saved = MaxF(Zero, SubF(interest_base, interest_extra))
            /\ years_saved = DivF(FromInt(months_base - months_extra), FromInt(12))
            /\ years_invest = DivF(FromInt(months_base), FromInt(12))
            /\ fv_invest = future_value_annuity(extra, annual_return, years_invest)
            /\ total_invested = MulF(FromInt(extra), years_invest)
            /\ returns_earned = SubF(fv_invest, total_invested)
            /\ net_benefit = SubF(returns_earned, interest_saved)
            /\ category \in {"success", "error", "info"})
    /\ [][pc = "line174" => metrics' = metrics]_vars

C8_Witness ==
    /\ button /\ pc = "done"
    /\ months_extra < months_base
    /\ years_short # years_invest
    /\ returns_earned_short # returns_earned
    /\ category_short # "none"

\* C9: each comparison reports exactly one category and it is the sign of its
\* net benefit = returns earned - interest saved: positive "investing wins"
\* (success), negative "paying extra wins" (error), zero "equal" (info).
C9_CategoryIsSign ==
    /\ pc \in {"line174", "done"} =>
          /\ net_benefit = SubF(returns_earned, interest_saved)
          /\ category = "success" <=> net_benefit.m > 0
          /\ category = "error" <=> net_benefit.m < 0
          /\ category = "info" <=> net_benefit.m = 0
    /\ (button /\ pc = "done") =>
          /\ net_benefit_short = SubF(returns_earned_short, interest_saved)
          /\ category_short = "success" <=> net_benefit_short.m > 0
          /\ category_short = "error" <=> net_benefit_short.m < 0
          /\ category_short = "info" <=> net_benefit_short.m = 0

C9_Witness ==
    /\ button /\ pc = "done"
    /\ category = "success" /\ net_benefit.m > 0
    /\ category_short = "error" /\ net_benefit_short.m < 0

\* C10: in every row Interest is the balance before the payment times the
\* monthly rate; in every row but the last Principal + Interest is EMI, plus
\* extra_annual in the months that are multiples of 12 when extra_annual > 0
\* and in no other month (to within rounding); in the last row Principal is at
\* most that amount.
C10_RowShape ==
    Valid =>
        \A i \in 1..Len(schedule) :
            LET row == schedule[i]
                due == IF extra_annual > 0 /\ row.Month % 12 = 0
                       THEN AddF(EMI, FromInt(extra_annual)) ELSE EMI
            IN  /\ row.Month = i
                /\ row.Interest = MulF(BalanceBefore(i), r_monthly)
                /\ IF i < Len(schedule) \/ pc = "loop"
                   THEN Within(AddF(row.Principal, row.Interest), due, due, 1)
                   ELSE LeF(row.Principal, due)

C10_Witness ==
    /\ Valid /\ pc = "ret" /\ extra_annual > 0
    /\ Len(schedule) > 12
    /\ schedule[12].Principal = AddF(SubF(EMI, schedule[12].Interest), FromInt(extra_annual))
    /\ schedule[Len(schedule)].Balance = Zero

=============================================================================
